---- MODULE Spec2Model ----
(***************************************************************************)
(* Model of BingSearchAgent (src/agents/agent_bing.py): execute_tool fans  *)
(* a list of queries out to a ThreadPoolExecutor of 5 workers, each worker *)
(* runs bing_search (one HTTP GET), and the main thread renders every      *)
(* future as it completes and joins the renderings into one report.        *)
(*                                                                         *)
(* Text is modelled as the sequence of its lines (the string split on      *)
(* "\n"), so "" is <<"">> and "\n".join is concatenation of line           *)
(* sequences.  Queries, titles and links are taken to hold no newline.     *)
(* A Python dict is a function whose DOMAIN is its key set; None is the    *)
(* record None below and the list value of the request is PyList(items).   *)
(* A future is identified by its submission index.                         *)
(***************************************************************************)
EXTENDS Bags, FiniteSets, Integers, Sequences, TLC

VARIABLES tool_response, endpoint, callNo, pc, queries, location,
          future_to_query, unit, result, yielded, search_results_list,
          combined_results, gets, returned_bags

vars == <<tool_response, endpoint, callNo, pc, queries, location,
          future_to_query, unit, result, yielded, search_results_list,
          combined_results, gets, returned_bags>>

-----------------------------------------------------------------------------
(* Bounds of the model *)

MaxQueries == 3

MaxBatch == 6

MaxCalls == 2

(* Program constants *)

max_workers == 5

Queries == {"python", "ml"}

BatchQueries == {"python"}

Locations == {"gb"}

None == [py_none |-> TRUE]

default_location == "us"

-----------------------------------------------------------------------------
(* Python helpers *)

Get(d, k, default) == IF k \in DOMAIN d THEN d[k] ELSE default

PyList(items) == [list |-> items]

(* variant: "if queries is None" instead of "if not queries" *)
Falsy_NoneOnly(v) == v = None

Falsy(v) == v = None \/ v = PyList(<<>>)

RECURSIVE Join(_)
Join(list) ==
    IF list = <<>> THEN <<"">>
    ELSE IF Len(list) = 1 THEN list[1]
    ELSE list[1] \o Join(Tail(list))

RECURSIVE SeqToBag(_)
SeqToBag(s) ==
    IF s = <<>> THEN EmptyBag ELSE SetToBag({s[1]}) (+) SeqToBag(Tail(s))

ListsUpTo(S, n) == UNION {[1..k -> S] : k \in 0..n}

-----------------------------------------------------------------------------
(* The search endpoint: what one GET can come back with *)

Response(name) ==
    CASE name = "refused" -> [raises |-> "ConnectionError", text |-> "connection refused"]
      [] name = "401"     -> [status |-> 401, text |-> "401 Client Error"]
      [] name = "null"    -> [status |-> 200, json |-> None]
      [] name = "empty"   -> [status |-> 200, json |-> <<>>]
      [] name = "novalue" -> [status |-> 200, json |-> [webPages |-> <<>>]]
      [] name = "hits"    -> [status |-> 200, json |-> [webPages |-> [value |->
                                 << [name |-> "A", url |-> "http://a"],
                                    [name |-> "B"],
                                    [url |-> "http://c"] >>]]]

ResponseNames == {"refused", "401", "null", "empty", "novalue", "hits"}

FailingResponses == {"refused", "401", "null"}

(* lines 73-77: the parameters of the GET *)
Params(query, loc) == [q |-> query, mkt |-> loc, count |-> 10]

RequestExceptions == {"ConnectionError", "Timeout", "HTTPError"}

-----------------------------------------------------------------------------
(* bing_search: one GET, normalised to {'organic_results': [...]} or, on   *)
(* any exception, {'error': text}.  TryBody is the try block (lines 79-100)*)
(* and yields either the returned dict or the exception raised in it.      *)

SimplifiedResult(query, item) ==
    [query     |-> query,
     title     |-> Get(item, "name", "No Title"),
     link      |-> Get(item, "url", "#"),
     sitelinks |-> <<>>]

(* variant: indexes results['webPages']['value'] without testing for it *)
TryBody_Unchecked(query, resp) ==
    IF "raises" \in DOMAIN resp
      THEN [exc |-> resp.raises, text |-> resp.text]
    ELSE IF resp.status >= 400 /\ resp.status < 600
      THEN [exc |-> "HTTPError", text |-> resp.text]
    ELSE LET results == resp.json IN
      IF results = None
        THEN [exc |-> "TypeError",
              text |-> "'NoneType' object is not subscriptable"]
      ELSE IF "webPages" \notin DOMAIN results
        THEN [exc |-> "KeyError", text |-> "'webPages'"]
      ELSE IF "value" \notin DOMAIN results.webPages
        THEN [exc |-> "KeyError", text |-> "'value'"]
      ELSE LET value == results.webPages.value IN
           [value |-> [organic_results |->
               [k \in 1..Len(value) |-> SimplifiedResult(query, value[k])]]]

TryBody(query, resp) ==
    IF "raises" \in DOMAIN resp
      THEN [exc |-> resp.raises, text |-> resp.text]
    ELSE IF resp.status >= 400 /\ resp.status < 600
      THEN [exc |-> "HTTPError", text |-> resp.text]
    ELSE LET results == resp.json IN
      IF results = None
        THEN [exc |-> "TypeError",
              text |-> "argument of type 'NoneType' is not iterable"]
      ELSE IF "webPages" \in DOMAIN results /\ "value" \in DOMAIN results.webPages
        THEN LET value == results.webPages.value IN
             [value |-> [organic_results |->
                 [k \in 1..Len(value) |-> SimplifiedResult(query, value[k])]]]
      ELSE [value |-> [organic_results |-> <<>>]]

bing_search(query, resp) ==
    LET r == TryBody(query, resp) IN
    IF "exc" \notin DOMAIN r THEN r.value
    ELSE IF r.exc = "HTTPError"
      THEN [error |-> "HTTP error occurred: " \o r.text]
    ELSE IF r.exc \in RequestExceptions
      THEN [error |-> "Request error occurred: " \o r.text]
    ELSE [error |-> r.text]

-----------------------------------------------------------------------------
(* format_search_results: one five-line block per hit, joined by newlines  *)

Separator == "----------------------------------------"

SitelinkLine(sitelink) ==
    "    - " \o Get(sitelink, "title", "No Title") \o ": "
             \o Get(sitelink, "link", "No Link")

FormatResult(r) ==
    LET sitelinks == Get(r, "sitelinks", <<>>) IN
    << "Query: " \o Get(r, "query", "No Query"),
       "Title: " \o Get(r, "title", "No Title"),
       "Link: "  \o Get(r, "link", "No Link") >>
    \o (IF sitelinks # <<>>
          THEN <<"Sitelinks:">> \o
               [k \in 1..Len(sitelinks) |-> SitelinkLine(sitelinks[k])]
          ELSE <<"Sitelinks: None">>)
    \o <<Separator>>

(* variant: formatted_strings.insert(0, ...) instead of append *)
format_search_results_Prepend(search_results) ==
    LET organic_results == Get(search_results, "organic_results", <<>>)
        n == Len(organic_results) IN
    Join([k \in 1..n |-> FormatResult(organic_results[n + 1 - k])])

format_search_results(search_results) ==
    LET organic_results == Get(search_results, "organic_results", <<>>) IN
    Join([k \in 1..Len(organic_results) |-> FormatResult(organic_results[k])])

ErrorMessage(query, exc) == <<"Error for query '" \o query \o "': " \o exc>>

-----------------------------------------------------------------------------
(* State *)

QueryValues == {PyList(l) : l \in ListsUpTo(Queries, MaxQueries)} \cup {None}

ToolResponses ==
    {[queries |-> q, location |-> l] : q \in QueryValues, l \in Locations}
    \cup {[queries |-> q] : q \in QueryValues}
    \cup {[location |-> l] : l \in Locations}
    \cup {<<>>}

BatchResponses ==
    {[queries |-> PyList(l)] : l \in ListsUpTo(BatchQueries, MaxBatch)}

Futures == DOMAIN future_to_query

InFlight == {f \in Futures : unit[f] = "running"}

Pending == {f \in Futures : unit[f] = "pending"}

Done == {f \in Futures : unit[f] = "done"}

Locals ==
    /\ pc = "call"
    /\ queries = None
    /\ location = default_location
    /\ future_to_query = <<>>
    /\ unit = <<>>
    /\ result = <<>>
    /\ yielded = {}
    /\ search_results_list = <<>>
    /\ combined_results = <<>>
    /\ gets = <<>>

Init ==
    /\ tool_response \in ToolResponses
    /\ endpoint \in [Queries -> ResponseNames]
    /\ callNo = 1
    /\ returned_bags = {}
    /\ Locals

BatchInit ==
    /\ tool_response \in BatchResponses
    /\ endpoint \in {[q \in Queries |-> r] : r \in ResponseNames}
    /\ callNo = 1
    /\ returned_bags = {}
    /\ Locals

-----------------------------------------------------------------------------
(* execute_tool, main thread *)

(* lines 155-164: read the request, validate, start with an empty list *)
Validate ==
    /\ pc = "call"
    /\ queries' = Get(tool_response, "queries", None)
    /\ location' = Get(tool_response, "location", default_location)
    /\ IF Falsy(queries')
         THEN pc' = "raised" /\ UNCHANGED search_results_list
         ELSE pc' = "submit" /\ search_results_list' = <<>>
    /\ UNCHANGED <<tool_response, endpoint, callNo, future_to_query, unit,
                   result, yielded, combined_results, gets, returned_bags>>

(* line 167: the dict comprehension.  While a query of the list is left,  *)
(* executor.submit queues bing_search for it and the new future becomes a  *)
(* key of future_to_query with the query as its value; when the list is    *)
(* exhausted, the loop over as_completed begins.                           *)
Submit ==
    /\ pc = "submit"
    /\ LET k == Len(future_to_query) + 1 IN
       IF k <= Len(queries.list)
         THEN /\ future_to_query' = Append(future_to_query, queries.list[k])
              /\ unit' = Append(unit, "pending")
              /\ result' = Append(result, None)
              /\ gets' = Append(gets, <<>>)
              /\ pc' = "submit"
         ELSE /\ pc' = "as_completed"
              /\ UNCHANGED <<future_to_query, unit, result, gets>>
    /\ UNCHANGED <<tool_response, endpoint, callNo, queries, location,
                   yielded, search_results_list, combined_results,
                   returned_bags>>

(* variant: a pool without the max_workers cap *)
Start_Uncapped(f) ==
    /\ f \in Pending
    /\ \A g \in Pending : f <= g
    /\ unit' = [unit EXCEPT ![f] = "running"]
    /\ gets' = [gets EXCEPT ![f] = Append(@, Params(future_to_query[f], location))]
    /\ UNCHANGED <<tool_response, endpoint, callNo, pc, queries, location,
                   future_to_query, result, yielded, search_results_list,
                   combined_results, returned_bags>>

(* a pool thread takes the oldest pending work item (FIFO queue) and calls *)
(* bing_search, which issues the GET (line 80); at most max_workers threads*)
(* exist.  gets[f] lists the GETs issued for future f.                     *)
Start(f) ==
    /\ f \in Pending
    /\ \A g \in Pending : f <= g
    /\ Cardinality(InFlight) < max_workers
    /\ unit' = [unit EXCEPT ![f] = "running"]
    /\ gets' = [gets EXCEPT ![f] = Append(@, Params(future_to_query[f], location))]
    /\ UNCHANGED <<tool_response, endpoint, callNo, pc, queries, location,
                   future_to_query, result, yielded, search_results_list,
                   combined_results, returned_bags>>

(* variant: a failed GET is retried once before the error is returned *)
Complete_Retry(f) ==
    /\ f \in InFlight
    /\ IF endpoint[future_to_query[f]] \in FailingResponses /\ Len(gets[f]) < 2
         THEN /\ gets' = [gets EXCEPT ![f] = Append(@, Params(future_to_query[f], location))]
              /\ UNCHANGED <<result, unit>>
         ELSE /\ result' = [result EXCEPT ![f] =
                    [returned |-> bing_search(future_to_query[f],
                                     Response(endpoint[future_to_query[f]]))]]
              /\ unit' = [unit EXCEPT ![f] = "done"]
              /\ UNCHANGED gets
    /\ UNCHANGED <<tool_response, endpoint, callNo, pc, queries, location,
                   future_to_query, yielded, search_results_list,
                   combined_results, returned_bags>>

(* the GET comes back; bing_search returns and the future is finished *)
Complete(f) ==
    /\ f \in InFlight
    /\ result' = [result EXCEPT ![f] =
           [returned |-> bing_search(future_to_query[f],
                                     Response(endpoint[future_to_query[f]]))]]
    /\ unit' = [unit EXCEPT ![f] = "done"]
    /\ UNCHANGED <<tool_response, endpoint, callNo, pc, queries, location,
                   future_to_query, yielded, search_results_list,
                   combined_results, gets, returned_bags>>

(* as_completed: the finished futures not yet yielded.  Futures finished   *)
(* before the loop starts are yielded in no fixed order, so any of them    *)
(* may come next.                                                          *)
AsCompleted == Done \ yielded

(* lines 170-178: the entry appended for one completed future *)
Entry(query, outcome) ==
    IF "raised" \in DOMAIN outcome
      THEN ErrorMessage(query, outcome.raised)
      ELSE format_search_results(outcome.returned)

(* variant: empty renderings are not appended *)
Collect_SkipEmpty(f) ==
    /\ pc = "as_completed"
    /\ f \in AsCompleted
    /\ yielded' = yielded \cup {f}
    /\ search_results_list' =
           IF Entry(future_to_query[f], result[f]) = <<"">>
             THEN search_results_list
             ELSE Append(search_results_list,
                         Entry(future_to_query[f], result[f]))
    /\ UNCHANGED <<tool_response, endpoint, callNo, pc, queries, location,
                   future_to_query, unit, result, combined_results, gets,
                   returned_bags>>

(* variant: an error outcome is raised to the caller *)
Collect_RaiseOnError(f) ==
    /\ pc = "as_completed"
    /\ f \in AsCompleted
    /\ yielded' = yielded \cup {f}
    /\ IF "error" \in DOMAIN result[f].returned
         THEN pc' = "raised" /\ UNCHANGED search_results_list
         ELSE /\ pc' = pc
              /\ search_results_list' = Append(search_results_list,
                     Entry(future_to_query[f], result[f]))
    /\ UNCHANGED <<tool_response, endpoint, callNo, queries, location,
                   future_to_query, unit, result, combined_results, gets,
                   returned_bags>>

(* variant: the list is assigned instead of appended to *)
Collect_Assign(f) ==
    /\ pc = "as_completed"
    /\ f \in AsCompleted
    /\ yielded' = yielded \cup {f}
    /\ search_results_list' = <<Entry(future_to_query[f], result[f])>>
    /\ UNCHANGED <<tool_response, endpoint, callNo, pc, queries, location,
                   future_to_query, unit, result, combined_results, gets,
                   returned_bags>>

(* lines 169-178: one iteration of the loop over as_completed *)
Collect(f) ==
    /\ pc = "as_completed"
    /\ f \in AsCompleted
    /\ yielded' = yielded \cup {f}
    /\ search_results_list' =
           Append(search_results_list, Entry(future_to_query[f], result[f]))
    /\ UNCHANGED <<tool_response, endpoint, callNo, pc, queries, location,
                   future_to_query, unit, result, combined_results, gets,
                   returned_bags>>

(* variant: the loop ends as soon as no finished future is left to yield *)
Exhausted_NoneFinished == AsCompleted = {}

(* as_completed is exhausted once every future of the dict was yielded *)
Exhausted == yielded = Futures

(* lines 181-185: leave the with block (all workers joined), join, return *)
Return ==
    /\ pc = "as_completed"
    /\ Exhausted
    /\ combined_results' = Join(search_results_list)
    /\ returned_bags' = returned_bags \cup {SeqToBag(search_results_list)}
    /\ pc' = "returned"
    /\ UNCHANGED <<tool_response, endpoint, callNo, queries, location,
                   future_to_query, unit, result, yielded,
                   search_results_list, gets>>

(* the caller calls execute_tool again with the same request; nothing of   *)
(* the previous call survives (all of its state is local)                  *)
NextCall ==
    /\ pc \in {"returned", "raised"}
    /\ callNo < MaxCalls
    /\ callNo' = callNo + 1
    /\ pc' = "call"
    /\ queries' = None
    /\ location' = default_location
    /\ future_to_query' = <<>>
    /\ unit' = <<>>
    /\ result' = <<>>
    /\ yielded' = {}
    /\ search_results_list' = <<>>
    /\ combined_results' = <<>>
    /\ gets' = <<>>
    /\ UNCHANGED <<tool_response, endpoint, returned_bags>>

Next ==
    \/ Validate
    \/ Submit
    \/ \E f \in Futures : Start(f)
    \/ \E f \in Futures : Complete(f)
    \/ \E f \in Futures : Collect(f)
    \/ Return
    \/ NextCall

Spec == Init /\ [][Next]_vars

Fairness ==
    /\ WF_vars(Validate)
    /\ WF_vars(Submit)
    /\ WF_vars(\E f \in Futures : Start(f))
    /\ WF_vars(\E f \in Futures : Complete(f))
    /\ WF_vars(\E f \in Futures : Collect(f))
    /\ WF_vars(Return)

BatchSpec == BatchInit /\ [][Next]_vars /\ Fairness

-----------------------------------------------------------------------------
(* Properties *)

Submitted == IF queries = None THEN <<>> ELSE queries.list

RequestQueriesMissing ==
    \/ "queries" \notin DOMAIN tool_response
    \/ tool_response.queries = None
    \/ tool_response.queries = PyList(<<>>)

Fails(query) == endpoint[query] \in {"refused", "401", "null"}

LacksWebPages(query) == endpoint[query] \in {"empty", "novalue"}

(* the text of the failure of a query, bare and as bing_search words it *)
FailureTexts(query) ==
    CASE endpoint[query] = "refused" ->
           {"connection refused", "Request error occurred: connection refused"}
      [] endpoint[query] = "401" ->
           {"401 Client Error", "HTTP error occurred: 401 Client Error"}
      [] endpoint[query] = "null" ->
           {"argument of type 'NoneType' is not iterable"}
      [] OTHER -> {}

(* the hit blocks of a query, written out from the items of the response   *)
(* in upstream order                                                       *)
HitLines(query, item) ==
    << "Query: " \o query,
       "Title: " \o (IF "name" \in DOMAIN item THEN item.name ELSE "No Title"),
       "Link: " \o (IF "url" \in DOMAIN item THEN item.url ELSE "#"),
       "Sitelinks: None",
       "----------------------------------------" >>

UpstreamItems == Response("hits").json.webPages.value

HitRun(query) ==
    HitLines(query, UpstreamItems[1]) \o HitLines(query, UpstreamItems[2])
        \o HitLines(query, UpstreamItems[3])

Occurrences(text, run) ==
    {o \in 0..(Len(text) - Len(run)) :
        SubSeq(text, o + 1, o + Len(run)) = run}

(* C1: when execute_tool returns, the list of entries joined into the      *)
(* report has exactly one entry per submitted query, duplicates included,  *)
(* whatever the completion order.                                          *)
C1_OneEntryPerQuery ==
    pc = "returned" =>
        /\ Len(search_results_list) = Len(Submitted)
        /\ combined_results = Join(search_results_list)

C1_Witness ==
    /\ pc = "returned"
    /\ Len(Submitted) = 3
    /\ Submitted[1] = Submitted[3]
    /\ Submitted[1] # Submitted[2]
    /\ Fails(Submitted[1])
    /\ endpoint[Submitted[2]] = "hits"
    /\ search_results_list[3] # <<"">>

(* C2: for every query whose fetch fails, the returned report holds a line *)
(* "Error for query '<query>': <message>" carrying the failure text.       *)
C2_ErrorLineForFailedQuery ==
    pc = "returned" =>
        \A f \in Futures :
            Fails(future_to_query[f]) =>
                \E k \in 1..Len(combined_results) :
                    \E m \in FailureTexts(future_to_query[f]) :
                        <<combined_results[k]>>
                            = ErrorMessage(future_to_query[f], m)

(* C3: when the request's queries are missing, None or empty, the call     *)
(* ends in the ValueError with no unit submitted and no GET issued.        *)
C3_MissingQueriesRaiseBeforeNetwork ==
    (RequestQueriesMissing /\ pc # "call") =>
        /\ pc = "raised"
        /\ Futures = {}
        /\ gets = <<>>

C3_Witness ==
    /\ pc = "raised"
    /\ callNo = 2
    /\ "queries" \in DOMAIN tool_response
    /\ tool_response.queries = PyList(<<>>)

(* C4: once validation has passed the call never raises; it returns a      *)
(* string, and every non-failing query has in it the entry it has on its   *)
(* own, whichever other queries fail.                                      *)
C4_FailuresNeverAbort ==
    /\ pc = "raised" => RequestQueriesMissing
    /\ pc = "returned" =>
          /\ combined_results # <<>>
          /\ \A f \in Futures :
                ~Fails(future_to_query[f]) =>
                    \E k \in 1..Len(search_results_list) :
                        search_results_list[k] = format_search_results(
                            bing_search(future_to_query[f],
                                Response(endpoint[future_to_query[f]])))

C4_Witness ==
    /\ pc = "returned"
    /\ Len(Submitted) = 2
    /\ Fails(Submitted[1])
    /\ endpoint[Submitted[2]] = "hits"
    /\ search_results_list[1] # <<"">>

(* C5: at no time are more than 5 searches in flight; further queries      *)
(* stay pending until a worker is free.                                    *)
C5_AtMostFiveInFlight == Cardinality(InFlight) <= 5

C5_Witness ==
    /\ Cardinality(InFlight) = 5
    /\ Pending # {}

(* C6: every element of the query list causes exactly one GET over the     *)
(* whole call, failed or not: none skipped, none retried.                  *)
C6_OneGetPerQuery ==
    /\ \A f \in Futures : Len(gets[f]) <= 1
    /\ pc = "returned" =>
          /\ Len(gets) = Len(Submitted)
          /\ \A k \in 1..Len(Submitted) :
                /\ Len(gets[k]) = 1
                /\ gets[k][1].q = Submitted[k]
                /\ gets[k][1].mkt =
                      (IF "location" \in DOMAIN tool_response
                         THEN tool_response.location ELSE "us")

C6_Witness ==
    /\ pc = "returned"
    /\ Len(Submitted) = 3
    /\ Submitted[1] = Submitted[2]
    /\ Fails(Submitted[1])
    /\ ~Fails(Submitted[3])

(* C7: execute_tool has returned only if every submitted unit is done, and *)
(* when every GET eventually completes a validated call eventually returns.*)
C7_ReturnsWhenAllDone ==
    /\ [](pc = "returned" =>
            /\ Len(unit) = Len(Submitted)
            /\ \A f \in Futures : unit[f] = "done")
    /\ (pc = "submit") ~> (pc = "returned")

C7_Witness ==
    /\ pc = "returned"
    /\ Len(Submitted) > 5
    /\ Done = Futures

(* C8: a successful response without webPages.value gives an empty hit    *)
(* list, not an error outcome, and the entry appended for it is the empty  *)
(* string.                                                                 *)
C8_NoWebPagesIsEmptyEntry ==
    [][\A f \in Futures :
          (f \in yielded' /\ f \notin yielded /\ LacksWebPages(future_to_query[f]))
          => /\ result[f] = [returned |-> [organic_results |-> <<>>]]
             /\ search_results_list' = Append(search_results_list, <<"">>)
             /\ pc' # "raised"]_vars

C8_Witness ==
    /\ pc = "returned"
    /\ Len(Submitted) = 2
    /\ endpoint[Submitted[1]] = "hits"
    /\ endpoint[Submitted[2]] = "novalue"
    /\ combined_results = HitRun(Submitted[1]) \o <<"">>

(* C9: the multiset of entries of a returned report is a function of the   *)
(* query list and the responses; two calls with the same request against   *)
(* the same endpoint return the same multiset.                             *)
C9_EntriesIndependentOfOrder ==
    /\ Cardinality(returned_bags) <= 1
    /\ pc = "returned" =>
          SeqToBag(search_results_list) =
              SeqToBag([k \in 1..Len(Submitted) |->
                  format_search_results(bing_search(Submitted[k],
                      Response(endpoint[Submitted[k]])))])

C9_Witness ==
    /\ pc = "returned"
    /\ callNo = 2
    /\ Len(Submitted) = 3
    /\ endpoint[Submitted[1]] = "hits"
    /\ endpoint[Submitted[2]] = "empty"
    /\ search_results_list[1] = <<"">>

(* C10: the hit blocks of every query that succeeds with hits stand in the *)
(* report in upstream order as one contiguous run, once per occurrence of  *)
(* the query, whatever the completion order.                               *)
C10_HitsContiguousInUpstreamOrder ==
    pc = "returned" =>
        \A q \in Queries :
            endpoint[q] = "hits" =>
                Cardinality(Occurrences(combined_results, HitRun(q)))
                    = Cardinality({f \in Futures : future_to_query[f] = q})

C10_Witness ==
    /\ pc = "returned"
    /\ Len(Submitted) = 2
    /\ Submitted[1] # Submitted[2]
    /\ endpoint[Submitted[1]] = "hits"
    /\ endpoint[Submitted[2]] = "hits"
    /\ combined_results = HitRun(Submitted[2]) \o HitRun(Submitted[1])

====
